---------------------------- MODULE Spec2Model ----------------------------
(***************************************************************************)
(* A model of two pieces of the VAMPIRE package:                           *)
(*                                                                         *)
(*   src/src/dipole/update.cpp      dipole::internal::update_field         *)
(*   src/src/opencl/initialize.cpp  vopencl::initialize (built with OPENCL)*)
(*                                                                         *)
(* Arithmetic.  update_field computes with doubles.  The model computes    *)
(* with exact real numbers of the form                                     *)
(*                                                                         *)
(*        (pi * PI + one) / den  *  muB^mu  *  scale^sc                    *)
(*                                                                         *)
(* where pi, one, den are integers (den > 0), PI is M_PI, muB is the       *)
(* literal 9.274009994e-24 of line 48 and scale is the literal             *)
(* 9.274009994e-01 of lines 95-102.  The three literals are kept as        *)
(* symbols: no value is substituted for them, so two numbers are equal in  *)
(* the model only if they are equal whatever the three literals are.       *)
(* IEEE-754 rounding is not modelled: every statement below is about the   *)
(* real-number value of the expressions the code evaluates.                *)
(***************************************************************************)
EXTENDS Integers, Sequences, FiniteSets, TLC

\* Number of global cells (dipole::internal::cells_num_cells) of the model.
NumCells == 2

-----------------------------------------------------------------------------
(* Exact numbers *)

Abs(n) == IF n < 0 THEN -n ELSE n

RECURSIVE GCD(_, _)
GCD(a, b) == IF b = 0 THEN a ELSE GCD(b, a % b)

\* The number 0 (one representation, whatever the unit exponents).
Zero == [pi |-> 0, one |-> 0, den |-> 1, mu |-> 0, sc |-> 0]

\* The number (p*PI + o)/d * muB^m * scale^s in lowest terms, d # 0.
Norm(p, o, d, m, s) ==
    IF p = 0 /\ o = 0 THEN Zero
    ELSE LET g == GCD(GCD(Abs(p), Abs(o)), Abs(d))
             sg == IF d < 0 THEN -1 ELSE 1
         IN [pi |-> sg * (p \div g), one |-> sg * (o \div g),
             den |-> Abs(d) \div g, mu |-> m, sc |-> s]

\* A rational literal n/d.
Frac(n, d) == Norm(0, n, d, 0, 0)

\* An integer literal.
Lit(n) == Frac(n, 1)

\* a + b.  The code only ever adds numbers of the same unit (or 0); a sum
\* of two different units has no representation and stops the evaluation.
Add(a, b) ==
    CASE a = Zero -> b
      [] b = Zero -> a
      [] a # Zero /\ b # Zero /\ a.mu = b.mu /\ a.sc = b.sc ->
            Norm(a.pi * b.den + b.pi * a.den, a.one * b.den + b.one * a.den,
                 a.den * b.den, a.mu, a.sc)

\* a * b.  At most one factor of any product of the code carries M_PI
\* (only self_demag does); a product of two stops the evaluation.
Mul(a, b) ==
    CASE a.pi = 0 \/ b.pi = 0 ->
            Norm(a.pi * b.one + a.one * b.pi, a.one * b.one,
                 a.den * b.den, a.mu + b.mu, a.sc + b.sc)

\* a / b for a divisor without M_PI, b # 0.
Div(a, b) ==
    CASE b.pi = 0 /\ b.one # 0 ->
            Norm(a.pi * b.den, a.one * b.den, a.den * b.one,
                 a.mu - b.mu, a.sc - b.sc)

\* a - b.
Sub(a, b) == Add(a, Mul(Lit(-1), b))

\* M_PI of <cmath>.
M_PI == [pi |-> 1, one |-> 0, den |-> 1, mu |-> 0, sc |-> 0]

\* The literal 9.274009994e-24 (the Bohr magneton, line 48).
muB == [pi |-> 0, one |-> 1, den |-> 1, mu |-> 1, sc |-> 0]

\* const double imuB = 1.0/9.274009994e-24;
imuB == Div(Lit(1), muB)

\* The literal 9.274009994e-01 of lines 95-102 (field units).
unit_scale == [pi |-> 0, one |-> 1, den |-> 1, mu |-> 0, sc |-> 1]


-----------------------------------------------------------------------------
(* dipole::internal::update_field as a function of the inputs it reads and *)
(* of the contents of the two output arrays.                               *)
(*   in : [activated, num_local, num_cells, cell_id, num_atoms, volume,    *)
(*         mx, my, mz, txx, txy, txz, tyy, tyz, tzz]                       *)
(*   F  : [fx, fy, fz] the Total Dipolar Field (dipole::cells_field_array) *)
(*        [hx, hy, hz] the Demagnetizing Pseudo-Field (cells_mu0Hd_field)  *)
(* Arrays are functions on 0 .. size-1, as the C++ vectors are.            *)

\* Lines 58-59: the self demagnetisation factor 8 PI / (3 V[i]).
self_demag(in, i) == Div(Mul(Lit(8), M_PI), Mul(Lit(3), in.volume[i]))

\* Lines 62-64 and 80-82: a cell magnetisation component times imuB.
normalise(m) == Mul(m, imuB)

\* Mutant of CellSelf: the self term of Hdemag has the sign of the field's.
CellSelf_HalfPositive(in, F, i) ==
    LET sd   == Div(Mul(Lit(8), M_PI), Mul(Lit(3), in.volume[i]))
        mx_i == Mul(in.mx[i], imuB)
        my_i == Mul(in.my[i], imuB)
        mz_i == Mul(in.mz[i], imuB)
    IN [F EXCEPT !.fx[i] = Mul(sd, mx_i),
                 !.fy[i] = Mul(sd, my_i),
                 !.fz[i] = Mul(sd, mz_i),
                 !.hx[i] = Mul(Mul(Frac(1, 2), sd), mx_i),
                 !.hy[i] = Mul(Mul(Frac(1, 2), sd), my_i),
                 !.hz[i] = Mul(Mul(Frac(1, 2), sd), mz_i)]

\* Mutant of CellSelf: the self term is added to the arrays (+=) instead of
\* assigned.
CellSelf_Accumulated(in, F, i) ==
    LET sd   == Div(Mul(Lit(8), M_PI), Mul(Lit(3), in.volume[i]))
        mx_i == Mul(in.mx[i], imuB)
        my_i == Mul(in.my[i], imuB)
        mz_i == Mul(in.mz[i], imuB)
    IN [F EXCEPT !.fx[i] = Add(@, Mul(sd, mx_i)),
                 !.fy[i] = Add(@, Mul(sd, my_i)),
                 !.fz[i] = Add(@, Mul(sd, mz_i)),
                 !.hx[i] = Add(@, Mul(Mul(Frac(-1, 2), sd), mx_i)),
                 !.hy[i] = Add(@, Mul(Mul(Frac(-1, 2), sd), my_i)),
                 !.hz[i] = Add(@, Mul(Mul(Frac(-1, 2), sd), mz_i))]

\* Lines 58-73: the self term, assigned (not added) to both arrays at i.
CellSelf(in, F, i) ==
    LET sd   == self_demag(in, i)
        mx_i == normalise(in.mx[i])
        my_i == normalise(in.my[i])
        mz_i == normalise(in.mz[i])
    IN [F EXCEPT !.fx[i] = Mul(sd, mx_i),
                 !.fy[i] = Mul(sd, my_i),
                 !.fz[i] = Mul(sd, mz_i),
                 !.hx[i] = Mul(Mul(Frac(-1, 2), sd), mx_i),
                 !.hy[i] = Mul(Mul(Frac(-1, 2), sd), my_i),
                 !.hz[i] = Mul(Mul(Frac(-1, 2), sd), mz_i)]

\* Mutant of Contract: mx is used where my belongs.
Contract_MxTwice(mx, my, mz, a, b, c) == Add(Add(Mul(mx, a), Mul(mx, b)), Mul(mz, c))

\* Mutant of Contract: the middle coefficient is added without its moment.
Contract_NoMy(mx, my, mz, a, b, c) == Add(Add(Mul(mx, a), b), Mul(mz, c))

\* Lines 84-86 and 88-90: one row of the symmetric tensor contraction,
\* mx*a + my*b + mz*c.
Contract(mx, my, mz, a, b, c) == Add(Add(Mul(mx, a), Mul(my, b)), Mul(mz, c))

\* Lines 80-90: the contribution of source cell j to local cell lc (global i).
PairAdd(in, F, lc, i, j) ==
    LET mx == normalise(in.mx[j])
        my == normalise(in.my[j])
        mz == normalise(in.mz[j])
    IN [F EXCEPT
          !.fx[i] = Add(@, Contract(mx, my, mz, in.txx[lc][j], in.txy[lc][j], in.txz[lc][j])),
          !.fy[i] = Add(@, Contract(mx, my, mz, in.txy[lc][j], in.tyy[lc][j], in.tyz[lc][j])),
          !.fz[i] = Add(@, Contract(mx, my, mz, in.txz[lc][j], in.tyz[lc][j], in.tzz[lc][j])),
          !.hx[i] = Add(@, Contract(mx, my, mz, in.txx[lc][j], in.txy[lc][j], in.txz[lc][j])),
          !.hy[i] = Add(@, Contract(mx, my, mz, in.txy[lc][j], in.tyy[lc][j], in.tyz[lc][j])),
          !.hz[i] = Add(@, Contract(mx, my, mz, in.txz[lc][j], in.tyz[lc][j], in.tzz[lc][j]))]

\* Mutant of IsSource: line 77 does not test the occupancy.
IsSource_Always(in, j) == TRUE

\* Line 77: whether cell j is a source.
IsSource(in, j) == in.num_atoms[j] > 0

\* Lines 76-92: for(int j=0;j<cells_num_cells;j++), from j on.
RECURSIVE InnerLoop(_, _, _, _, _)
InnerLoop(in, F, lc, i, j) ==
    IF j >= in.num_cells THEN F
    ELSE InnerLoop(in, IF IsSource(in, j) THEN PairAdd(in, F, lc, i, j) ELSE F,
                   lc, i, j + 1)

\* Mutant of CellScale: lines 100-102 are missing (Hdemag is not scaled).
CellScale_FieldOnly(F, i) ==
    [F EXCEPT !.fx[i] = Mul(@, unit_scale),
              !.fy[i] = Mul(@, unit_scale),
              !.fz[i] = Mul(@, unit_scale)]

\* Lines 95-102: both arrays at i times 9.274009994e-01.
CellScale(F, i) ==
    [F EXCEPT !.fx[i] = Mul(@, unit_scale),
              !.fy[i] = Mul(@, unit_scale),
              !.fz[i] = Mul(@, unit_scale),
              !.hx[i] = Mul(@, unit_scale),
              !.hy[i] = Mul(@, unit_scale),
              !.hz[i] = Mul(@, unit_scale)]

\* Mutant of IsTarget: line 55 does not test the occupancy.
IsTarget_Always(in, i) == TRUE

\* Line 55: whether local cell i is a target.
IsTarget(in, i) == in.num_atoms[i] > 0

\* Lines 53-103: the body of the loop over local cells, for local index lc.
CellUpdate(in, F, lc) ==
    LET i == in.cell_id[lc]
    IN IF IsTarget(in, i)
       THEN CellScale(InnerLoop(in, CellSelf(in, F, i), lc, i, 0), i)
       ELSE F

\* Lines 51-104: for(int lc=0;lc<cells_num_local_cells;lc++), from lc on.
RECURSIVE OuterLoop(_, _, _)
OuterLoop(in, F, lc) ==
    IF lc >= in.num_local THEN F
    ELSE OuterLoop(in, CellUpdate(in, F, lc), lc + 1)

\* Mutant of Gate: the activation flag is not tested.
Gate_Ignored(in) == FALSE

\* Line 39: if(!dipole::activated) return;
Gate(in) == ~in.activated

\* Lines 37-105: the two output arrays after update_field().
update_field(in, F) == IF Gate(in) THEN F ELSE OuterLoop(in, F, 0)

-----------------------------------------------------------------------------
(* The state: the globals update_field reads and writes. *)

VARIABLES
    activated,                  \* dipole::activated
    err_check,                  \* err::check
    cells_num_cells,            \* dipole::internal::cells_num_cells
    cells_num_local_cells,      \* dipole::internal::cells_num_local_cells
    cell_id_array,              \* cells::cell_id_array
    cells_num_atoms_in_cell,    \* dipole::internal::cells_num_atoms_in_cell
    cells_volume_array,         \* dipole::internal::cells_volume_array
    mag_array_x, mag_array_y, mag_array_z,              \* cells::mag_array_*
    rij_tensor_xx, rij_tensor_xy, rij_tensor_xz,        \* internal::rij_tensor_*
    rij_tensor_yy, rij_tensor_yz, rij_tensor_zz,
    cells_field_array_x, cells_field_array_y, cells_field_array_z,
    cells_mu0Hd_field_array_x, cells_mu0Hd_field_array_y,
    cells_mu0Hd_field_array_z,
    outcome,    \* how the last call of update_field ended ("none": no call yet)
    fault,      \* whether the last call read or wrote outside an array
    cerr,       \* whether the last call wrote its diagnostic line to std::cerr
    pre,        \* the two output arrays as they were when the last call began
    \* vopencl::initialize
    opencl_build,       \* whether the build defines OPENCL
    system,             \* the machine: the number of devices of each platform
    gpu_num_threads,    \* ::gpu::num_threads
    cl_pc,              \* the position of initialize()
    platforms,          \* std::vector<cl::Platform> platforms
    nplatforms,         \* unsigned nplatforms
    devices,            \* std::vector<std::vector<cl::Device>> devices
    ndevices,           \* unsigned ndevices
    cl_i,               \* the loop variable i of lines 86-101
    default_device,     \* vcl::default_device
    context,            \* vcl::context
    queue,              \* vcl::queue
    global,             \* vcl::global (0: not set)
    use_cpu,            \* vcl::stats::use_cpu
    success,            \* bool success
    cl_step,            \* the next initialize_* call of lines 134-141
    steps_run,          \* the initialize_* functions that ran, in order
    zlog,               \* the messages written to std::cout and zlog, in order
    \* update_field run by several execution units at once
    unit_of,    \* the execution unit that runs each outer-loop iteration lc
    unit_pc,    \* the position of each unit in update_field
    it_pc,      \* the position of each outer-loop iteration lc
    it_j,       \* the inner loop variable j of each iteration
    it_acc,     \* the output entries an iteration has read for a += or *=
    writers,    \* for each output slot, the iterations that have written it
    readers     \* for each output slot, the iterations that have read it

inputs == <<activated, err_check, cells_num_cells, cells_num_local_cells,
            cell_id_array, cells_num_atoms_in_cell, cells_volume_array,
            mag_array_x, mag_array_y, mag_array_z,
            rij_tensor_xx, rij_tensor_xy, rij_tensor_xz,
            rij_tensor_yy, rij_tensor_yz, rij_tensor_zz>>

outputs == <<cells_field_array_x, cells_field_array_y, cells_field_array_z,
             cells_mu0Hd_field_array_x, cells_mu0Hd_field_array_y,
             cells_mu0Hd_field_array_z>>

dipole_vars == <<inputs, outputs, outcome, fault, cerr, pre>>

opencl_vars == <<opencl_build, system, gpu_num_threads, cl_pc, platforms,
                 nplatforms, devices, ndevices, cl_i, default_device, context,
                 queue, global, use_cpu, success, cl_step, steps_run, zlog>>

parallel_vars == <<unit_of, unit_pc, it_pc, it_j, it_acc, writers, readers>>

vars == <<dipole_vars, opencl_vars, parallel_vars>>

\* The inputs of a call, as update_field(in, F) takes them.
In == [activated |-> activated,
       num_local |-> cells_num_local_cells,
       num_cells |-> cells_num_cells,
       cell_id   |-> cell_id_array,
       num_atoms |-> cells_num_atoms_in_cell,
       volume    |-> cells_volume_array,
       mx |-> mag_array_x, my |-> mag_array_y, mz |-> mag_array_z,
       txx |-> rij_tensor_xx, txy |-> rij_tensor_xy, txz |-> rij_tensor_xz,
       tyy |-> rij_tensor_yy, tyz |-> rij_tensor_yz, tzz |-> rij_tensor_zz]

\* The two output arrays, as update_field(in, F) takes them.
Out == [fx |-> cells_field_array_x, fy |-> cells_field_array_y,
        fz |-> cells_field_array_z,
        hx |-> cells_mu0Hd_field_array_x, hy |-> cells_mu0Hd_field_array_y,
        hz |-> cells_mu0Hd_field_array_z]

-----------------------------------------------------------------------------
(* The inputs the model draws from. *)

Cells == 0 .. NumCells - 1

\* Occupancy counts.
Occupancies == {0, 3}

\* The cell data of the model: the volume of every cell and its moment in
\* units of muB (the lab moment cells::mag_array_*[c] is that times muB).
\*  "scenario" volumes 1000, moments (1,0,0), (0,1,0), (1,0,0), ...
\*  "generic"  volume c + 1, moment (2 + c, -3, 5 - 2c)
\*  "mixed"    volumes 1000, moment (0,0,0) at cell 0, (c, 4, -1) elsewhere
CellData == {"scenario", "generic", "mixed"}

Volume(data, c) ==
    CASE data = "scenario" -> 1000
      [] data = "generic"  -> c + 1
      [] data = "mixed"    -> 1000

Moment(data, c) ==
    CASE data = "scenario" -> IF c % 2 = 0 THEN <<1, 0, 0>> ELSE <<0, 1, 0>>
      [] data = "generic"  -> <<2 + c, -3, 5 - 2 * c>>
      [] data = "mixed"    -> IF c = 0 THEN <<0, 0, 0>> ELSE <<c, 4, -1>>

\* A moment of n Bohr magnetons, in lab units.
Lab(n) == Mul(Lit(n), muB)

\* The cells of a set in ascending order, from cell c on.
RECURSIVE Ascending(_, _)
Ascending(S, c) ==
    IF c >= NumCells THEN <<>>
    ELSE (IF c \in S THEN <<c>> ELSE <<>>) \o Ascending(S, c + 1)

\* The reverse of a sequence.
RECURSIVE Reverse(_)
Reverse(q) == IF q = <<>> THEN <<>> ELSE Reverse(Tail(q)) \o <<Head(q)>>

\* Local cell sets: every subset of the cells in ascending order, and the
\* whole set in descending order.
LocalSequences ==
    {Ascending(S, 0) : S \in SUBSET Cells} \cup {Reverse(Ascending(Cells, 0))}

\* A sequence as a C++ vector: a function on 0 .. size-1.
Vector(q) == [k \in 0 .. Len(q) - 1 |-> q[k + 1]]

\* The interaction tensors of the model, for a local cell sequence ids:
\*  "zero"    every coefficient 0;
\*  "xy"      T_xy(0,1) = T_xy(1,0) = 7, every other coefficient 0;
\*  "generic" coefficients that differ from pair to pair and from component
\*            to component, the coincident pair (l, i) included.
TensorKinds == {"zero", "xy", "generic"}

TensorCoefficient(kind, comp, i, lc, j) ==
    CASE kind = "zero" -> 0
      [] kind = "xy"   -> IF comp = "xy" /\ {i, j} = {0, 1} THEN 7 ELSE 0
      [] kind = "generic" ->
            CASE comp = "xx" -> 1 + lc + 2 * j
              [] comp = "xy" -> 2 - j
              [] comp = "xz" -> 3 + lc
              [] comp = "yy" -> -1 - j
              [] comp = "yz" -> j + 4
              [] comp = "zz" -> 2 * lc - j - 5

Tensor(kind, comp, ids) ==
    [lc \in DOMAIN ids |->
        [j \in Cells |-> Lit(TensorCoefficient(kind, comp, ids[lc], lc, j))]]

\* Contents of the output arrays before the first call: zero-initialised, or
\* left over (a different number in every slot).
StaleArrays ==
    [fx |-> [c \in Cells |-> Lit(11 + 10 * c)], fy |-> [c \in Cells |-> Lit(12 + 10 * c)],
     fz |-> [c \in Cells |-> Lit(13 + 10 * c)], hx |-> [c \in Cells |-> Lit(14 + 10 * c)],
     hy |-> [c \in Cells |-> Lit(15 + 10 * c)], hz |-> [c \in Cells |-> Lit(16 + 10 * c)]]

ZeroArrays ==
    [fx |-> [c \in Cells |-> Zero], fy |-> [c \in Cells |-> Zero],
     fz |-> [c \in Cells |-> Zero], hx |-> [c \in Cells |-> Zero],
     hy |-> [c \in Cells |-> Zero], hz |-> [c \in Cells |-> Zero]]

InitialArrays == {ZeroArrays, StaleArrays}

-----------------------------------------------------------------------------
(* vopencl::initialize, src/src/opencl/initialize.cpp lines 48-147, one     *)
(* action per statement group.  The machine is a list of platforms, each   *)
(* with a number of devices.                                               *)

\* The most platforms of a machine, and the most devices of a platform.
MaxPlatforms == 2
MaxDevices == 2

\* No device, the j-th device of platform p, and what a read past the end
\* of a vector gives when the process survives it.
NoDevice == [kind |-> "none", platform |-> 0, index |-> 0]
Device(p, j) == [kind |-> "device", platform |-> p, index |-> j]
InvalidDevice == [kind |-> "invalid", platform |-> 0, index |-> 0]

NoContext == [kind |-> "none", device |-> NoDevice]
NoQueue == [kind |-> "none", context |-> NoContext, device |-> NoDevice]

\* The machines of the model: 0 .. MaxPlatforms platforms with 0 .. MaxDevices
\* devices each.
Machines ==
    UNION {[0 .. n - 1 -> 0 .. MaxDevices] : n \in 0 .. MaxPlatforms}

\* Lines 54-66: the start-up message.
StartMessage == "OpenCL has been enabled"

\* Line 78.
NoPlatformsMessage == "Error: OpenCL is enabled but no platforms are available."

\* Line 105.
NoDevicesMessage == "Error: OpenCL is enabled but no suitable devices can be found."

\* ::err::vexit(): the process ends; control does not come back.
vexit == "exited"

\* Lines 134-141, in order.
InitializeSteps ==
    <<"initialize_atoms", "initialize_fields", "initialize_cells",
      "initialize_materials", "initialize_topology", "initialize_stats",
      "initialize_rng", "initialize_kernels">>

\* What each initialize_* returns: lines 153-385 all end in return true;
\* initialize_kernels is defined elsewhere and may return either.
StepResults(name) == IF name = "initialize_kernels" THEN BOOLEAN ELSE {TRUE}

\* The state before initialize() is called.
OpenCLIdle ==
    /\ cl_pc = "start"
    /\ platforms = <<>>
    /\ nplatforms = 0
    /\ devices = <<>>
    /\ ndevices = 0
    /\ cl_i = 0
    /\ default_device = NoDevice
    /\ context = NoContext
    /\ queue = NoQueue
    /\ global = 0
    /\ use_cpu = FALSE
    /\ success = FALSE
    /\ cl_step = 1
    /\ steps_run = <<>>
    /\ zlog = <<>>

\* Lines 50-69: bool success = false; the start-up message;
\* vcl::stats::use_cpu = true.  Without OPENCL the body is lines 50 and 145.
Enter ==
    /\ cl_pc = "start"
    /\ success' = FALSE
    /\ IF opencl_build
       THEN /\ zlog' = Append(zlog, StartMessage)
            /\ use_cpu' = TRUE
            /\ cl_pc' = "get_platforms"
       ELSE /\ cl_pc' = "return"
            /\ UNCHANGED <<zlog, use_cpu>>
    /\ UNCHANGED <<opencl_build, system, gpu_num_threads, platforms, nplatforms,
                   devices, ndevices, cl_i, default_device, context, queue,
                   global, cl_step, steps_run>>

\* Lines 72-74: cl::Platform::get(&platforms); nplatforms = platforms.size().
GetPlatforms ==
    /\ cl_pc = "get_platforms"
    /\ platforms' = [p \in DOMAIN system |-> p]
    /\ nplatforms' = Cardinality(DOMAIN system)
    /\ cl_pc' = "check_platforms"
    /\ UNCHANGED <<opencl_build, system, gpu_num_threads, devices, ndevices,
                   cl_i, default_device, context, queue, global, use_cpu,
                   success, cl_step, steps_run, zlog>>

\* Line 76.
NoPlatformsFound == nplatforms = 0

\* Lines 76-86: the zero-platform check; then devices(nplatforms),
\* ndevices = 0, i = 0.
CheckPlatforms ==
    /\ cl_pc = "check_platforms"
    /\ IF NoPlatformsFound
       THEN /\ zlog' = Append(zlog, NoPlatformsMessage)
            /\ cl_pc' = vexit
            /\ UNCHANGED <<devices, ndevices, cl_i>>
       ELSE /\ devices' = [p \in 0 .. nplatforms - 1 |-> <<>>]
            /\ ndevices' = 0
            /\ cl_i' = 0
            /\ cl_pc' = "get_devices"
            /\ UNCHANGED zlog
    /\ UNCHANGED <<opencl_build, system, gpu_num_threads, platforms, nplatforms,
                   default_device, context, queue, global, use_cpu, success,
                   cl_step, steps_run>>

\* Lines 86-101: one turn of the loop over the platforms.
GetDevices ==
    /\ cl_pc = "get_devices"
    /\ IF cl_i < nplatforms
       THEN LET tmp_devices == [j \in 0 .. system[platforms[cl_i]] - 1 |->
                                   Device(platforms[cl_i], j)]
            IN /\ devices' = [devices EXCEPT ![cl_i] = tmp_devices]
               /\ ndevices' = ndevices + Cardinality(DOMAIN tmp_devices)
               /\ cl_i' = cl_i + 1
               /\ UNCHANGED cl_pc
       ELSE /\ cl_pc' = "check_devices"
            /\ UNCHANGED <<devices, ndevices, cl_i>>
    /\ UNCHANGED <<opencl_build, system, gpu_num_threads, platforms, nplatforms,
                   default_device, context, queue, global, use_cpu, success,
                   cl_step, steps_run, zlog>>

\* Mutant of NoDevicesFound: the zero-device check never fires.
NoDevicesFound_Never == FALSE

\* Line 103.
NoDevicesFound == ndevices = 0

\* Lines 103-109: the zero-device check.
CheckDevices ==
    /\ cl_pc = "check_devices"
    /\ IF NoDevicesFound
       THEN /\ zlog' = Append(zlog, NoDevicesMessage)
            /\ cl_pc' = vexit
       ELSE /\ cl_pc' = "select"
            /\ UNCHANGED zlog
    /\ UNCHANGED <<opencl_build, system, gpu_num_threads, platforms, nplatforms,
                   devices, ndevices, cl_i, default_device, context, queue,
                   global, use_cpu, success, cl_step, steps_run>>

\* Lines 111-112: default_platform = platforms[0];
\* vcl::default_device = devices[0][0].  When devices[0] is empty the read is
\* past the end of the vector: the process crashes, or goes on with whatever
\* was read.
SelectDefault ==
    /\ cl_pc = "select"
    /\ IF 0 \in DOMAIN devices[0]
       THEN /\ default_device' = devices[0][0]
            /\ cl_pc' = "context"
       ELSE \/ /\ cl_pc' = "crashed"
               /\ UNCHANGED default_device
            \/ /\ default_device' = InvalidDevice
               /\ cl_pc' = "context"
    /\ UNCHANGED <<opencl_build, system, gpu_num_threads, platforms, nplatforms,
                   devices, ndevices, cl_i, context, queue, global, use_cpu,
                   success, cl_step, steps_run, zlog>>

\* Line 119: vcl::context = cl::Context({vcl::default_device}).
CreateContext ==
    /\ cl_pc = "context"
    /\ context' = [kind |-> "context", device |-> default_device]
    /\ cl_pc' = "queue"
    /\ UNCHANGED <<opencl_build, system, gpu_num_threads, platforms, nplatforms,
                   devices, ndevices, cl_i, default_device, queue, global,
                   use_cpu, success, cl_step, steps_run, zlog>>

\* Lines 121-132: vcl::queue = cl::CommandQueue(context, default_device, ...);
\* vcl::global; success = true.
CreateQueue ==
    /\ cl_pc = "queue"
    /\ queue' = [kind |-> "queue", context |-> context, device |-> default_device]
    /\ global' = IF gpu_num_threads > 0 THEN gpu_num_threads ELSE 4
    /\ success' = TRUE
    /\ cl_step' = 1
    /\ cl_pc' = "initialize"
    /\ UNCHANGED <<opencl_build, system, gpu_num_threads, platforms, nplatforms,
                   devices, ndevices, cl_i, default_device, context, use_cpu,
                   steps_run, zlog>>

\* Lines 134-141: success &= vcl::initialize_*(), one call.
InitializeStep ==
    /\ cl_pc = "initialize"
    /\ \E r \in StepResults(InitializeSteps[cl_step]) :
          success' = (success /\ r)
    /\ steps_run' = Append(steps_run, InitializeSteps[cl_step])
    /\ cl_step' = cl_step + 1
    /\ cl_pc' = IF cl_step = Len(InitializeSteps) THEN "return" ELSE "initialize"
    /\ UNCHANGED <<opencl_build, system, gpu_num_threads, platforms, nplatforms,
                   devices, ndevices, cl_i, default_device, context, queue,
                   global, use_cpu, zlog>>

\* Line 145: return success.
Return ==
    /\ cl_pc = "return"
    /\ cl_pc' = "returned"
    /\ UNCHANGED <<opencl_build, system, gpu_num_threads, platforms, nplatforms,
                   devices, ndevices, cl_i, default_device, context, queue,
                   global, use_cpu, success, cl_step, steps_run, zlog>>

-----------------------------------------------------------------------------
(* The execution units that run update_field at once, at rest. *)

NumUnits == 2

Units == 1 .. NumUnits

\* No entry loaded.
NoAcc == <<>>

\* No unit is running update_field.
ParallelIdle ==
    /\ unit_of = <<>>
    /\ unit_pc = [u \in Units |-> "idle"]
    /\ it_pc = <<>>
    /\ it_j = <<>>
    /\ it_acc = <<>>
    /\ writers = [c \in Cells |-> {}]
    /\ readers = [c \in Cells |-> {}]

-----------------------------------------------------------------------------
(* Spec: update_field called again and again on consistent inputs. *)

Init ==
    /\ activated \in BOOLEAN
    /\ err_check \in BOOLEAN
    /\ cells_num_cells = NumCells
    /\ \E q \in LocalSequences, kind \in TensorKinds :
          /\ cell_id_array = Vector(q)
          /\ cells_num_local_cells = Len(q)
          /\ rij_tensor_xx = Tensor(kind, "xx", Vector(q))
          /\ rij_tensor_xy = Tensor(kind, "xy", Vector(q))
          /\ rij_tensor_xz = Tensor(kind, "xz", Vector(q))
          /\ rij_tensor_yy = Tensor(kind, "yy", Vector(q))
          /\ rij_tensor_yz = Tensor(kind, "yz", Vector(q))
          /\ rij_tensor_zz = Tensor(kind, "zz", Vector(q))
    /\ cells_num_atoms_in_cell \in [Cells -> Occupancies]
    /\ \E data \in CellData :
          /\ cells_volume_array = [c \in Cells |-> Lit(Volume(data, c))]
          /\ mag_array_x = [c \in Cells |-> Lab(Moment(data, c)[1])]
          /\ mag_array_y = [c \in Cells |-> Lab(Moment(data, c)[2])]
          /\ mag_array_z = [c \in Cells |-> Lab(Moment(data, c)[3])]
    /\ \E F \in InitialArrays :
          /\ cells_field_array_x = F.fx
          /\ cells_field_array_y = F.fy
          /\ cells_field_array_z = F.fz
          /\ cells_mu0Hd_field_array_x = F.hx
          /\ cells_mu0Hd_field_array_y = F.hy
          /\ cells_mu0Hd_field_array_z = F.hz
          /\ pre = F
    /\ outcome = "none"
    /\ fault = FALSE
    /\ cerr = FALSE
    /\ opencl_build = FALSE /\ system = <<>> /\ gpu_num_threads = 0
    /\ OpenCLIdle
    /\ ParallelIdle

\* Lines 41-45: the diagnostic line, written when err::check is set.
Diagnostic == err_check = TRUE

\* Whether every array access of update_field(in, F) is inside its array:
\* line 53 reads cell_id_array[lc]; line 55 num_atoms[i]; lines 58-73 read
\* volume[i] and mag[i] and write the six output arrays at i; line 77 reads
\* num_atoms[j]; lines 80-90 read mag[j] and the six tensors at [lc][j].
\* None of these accesses is checked by the code (std::vector::operator[]).
AccessesInBounds(in, F) ==
    Gate(in) \/
    \A lc \in 0 .. in.num_local - 1 :
        /\ lc \in DOMAIN in.cell_id
        /\ LET i == in.cell_id[lc]
           IN /\ i \in DOMAIN in.num_atoms
              /\ IsTarget(in, i) =>
                    /\ i \in DOMAIN in.volume
                    /\ i \in DOMAIN in.mx /\ i \in DOMAIN in.my /\ i \in DOMAIN in.mz
                    /\ i \in DOMAIN F.fx /\ i \in DOMAIN F.fy /\ i \in DOMAIN F.fz
                    /\ i \in DOMAIN F.hx /\ i \in DOMAIN F.hy /\ i \in DOMAIN F.hz
                    /\ \A j \in 0 .. in.num_cells - 1 :
                          /\ j \in DOMAIN in.num_atoms
                          /\ IsSource(in, j) =>
                                /\ j \in DOMAIN in.mx /\ j \in DOMAIN in.my
                                /\ j \in DOMAIN in.mz
                                /\ \A T \in {in.txx, in.txy, in.txz, in.tyy, in.tyz, in.tzz} :
                                      lc \in DOMAIN T /\ j \in DOMAIN T[lc]

\* dipole::internal::update_field(), lines 37-105, when every access it
\* makes is inside its array.
UpdateField ==
    LET F == update_field(In, Out)
    IN /\ AccessesInBounds(In, Out)
       /\ cells_field_array_x' = F.fx
       /\ cells_field_array_y' = F.fy
       /\ cells_field_array_z' = F.fz
       /\ cells_mu0Hd_field_array_x' = F.hx
       /\ cells_mu0Hd_field_array_y' = F.hy
       /\ cells_mu0Hd_field_array_z' = F.hz
       /\ cerr' = (~Gate(In) /\ Diagnostic)
       /\ outcome' = "returned"
       /\ fault' = FALSE
       /\ pre' = Out
       /\ UNCHANGED inputs

Next == UpdateField /\ UNCHANGED <<opencl_vars, parallel_vars>>

Spec == Init /\ [][Next]_vars

-----------------------------------------------------------------------------
(* SpecOpenCL: one run of vopencl::initialize on every machine. *)

\* The dipole globals while initialize() runs.
DipoleAtRest ==
    /\ activated = FALSE
    /\ err_check = FALSE
    /\ cells_num_cells = NumCells
    /\ cells_num_local_cells = 0
    /\ cell_id_array = <<>>
    /\ cells_num_atoms_in_cell = [c \in Cells |-> 0]
    /\ cells_volume_array = [c \in Cells |-> Lit(1000)]
    /\ mag_array_x = [c \in Cells |-> Zero]
    /\ mag_array_y = [c \in Cells |-> Zero]
    /\ mag_array_z = [c \in Cells |-> Zero]
    /\ rij_tensor_xx = <<>> /\ rij_tensor_xy = <<>> /\ rij_tensor_xz = <<>>
    /\ rij_tensor_yy = <<>> /\ rij_tensor_yz = <<>> /\ rij_tensor_zz = <<>>
    /\ cells_field_array_x = ZeroArrays.fx
    /\ cells_field_array_y = ZeroArrays.fy
    /\ cells_field_array_z = ZeroArrays.fz
    /\ cells_mu0Hd_field_array_x = ZeroArrays.hx
    /\ cells_mu0Hd_field_array_y = ZeroArrays.hy
    /\ cells_mu0Hd_field_array_z = ZeroArrays.hz
    /\ outcome = "none"
    /\ fault = FALSE
    /\ cerr = FALSE
    /\ pre = ZeroArrays

InitOpenCL ==
    /\ DipoleAtRest
    /\ opencl_build \in BOOLEAN
    /\ system \in Machines
    /\ gpu_num_threads \in {0, 8}
    /\ OpenCLIdle
    /\ ParallelIdle

NextOpenCL ==
    \/ Enter /\ UNCHANGED <<dipole_vars, parallel_vars>>
    \/ GetPlatforms /\ UNCHANGED <<dipole_vars, parallel_vars>>
    \/ CheckPlatforms /\ UNCHANGED <<dipole_vars, parallel_vars>>
    \/ GetDevices /\ UNCHANGED <<dipole_vars, parallel_vars>>
    \/ CheckDevices /\ UNCHANGED <<dipole_vars, parallel_vars>>
    \/ SelectDefault /\ UNCHANGED <<dipole_vars, parallel_vars>>
    \/ CreateContext /\ UNCHANGED <<dipole_vars, parallel_vars>>
    \/ CreateQueue /\ UNCHANGED <<dipole_vars, parallel_vars>>
    \/ InitializeStep /\ UNCHANGED <<dipole_vars, parallel_vars>>
    \/ Return /\ UNCHANGED <<dipole_vars, parallel_vars>>

SpecOpenCL == InitOpenCL /\ [][NextOpenCL]_vars

-----------------------------------------------------------------------------
(* SpecShape: update_field called on inputs whose shapes may not agree. *)

\* What is wrong with the inputs: nothing; the last local cell id is
\* NumCells; the tensors lack their last row; every tensor row lacks its last
\* column; the occupancy, the volume or the moment arrays lack their last
\* entry.
Defects ==
    {"none", "cell_id", "tensor_rows", "tensor_cols", "occupancy", "volume", "moment"}

\* A vector without its last entry.
DropLast(a) == [k \in {x \in DOMAIN a : x + 1 \in DOMAIN a} |-> a[k]]

\* A vector, or without its last entry when the inputs have defect d.
Given(a, defect, d) == IF defect = d THEN DropLast(a) ELSE a

\* Every entry of a vector of vectors without its last entry.
DropLastColumn(a) == [lc \in DOMAIN a |-> DropLast(a[lc])]

ShapedTensor(comp, ids, defect) ==
    LET T == Tensor("generic", comp, ids)
    IN CASE defect = "tensor_rows" -> DropLast(T)
         [] defect = "tensor_cols" -> DropLastColumn(T)
         [] OTHER -> T

\* The inputs are inconsistent: a local cell id outside [0, N_global), a
\* tensor with fewer rows than N_local or a row with fewer columns than
\* N_global, or an occupancy, volume or moment array shorter than N_global.
ShapeMismatch ==
    LET Global == 0 .. cells_num_cells - 1
        Local  == 0 .. cells_num_local_cells - 1
    IN \/ \E lc \in Local : lc \notin DOMAIN cell_id_array
                              \/ cell_id_array[lc] \notin Global
       \/ \E T \in {rij_tensor_xx, rij_tensor_xy, rij_tensor_xz,
                    rij_tensor_yy, rij_tensor_yz, rij_tensor_zz} :
             \/ ~(Local \subseteq DOMAIN T)
             \/ \E lc \in DOMAIN T : ~(Global \subseteq DOMAIN T[lc])
       \/ ~(Global \subseteq DOMAIN cells_num_atoms_in_cell)
       \/ ~(Global \subseteq DOMAIN cells_volume_array)
       \/ ~(Global \subseteq DOMAIN mag_array_x)
       \/ ~(Global \subseteq DOMAIN mag_array_y)
       \/ ~(Global \subseteq DOMAIN mag_array_z)

\* The defects of the model are those an active call runs into: an
\* inconsistent input whose missing entries no access of the call touches
\* (an empty Local Cell Set, say) is left out.
DefectReached ==
    ShapeMismatch => ~AccessesInBounds([In EXCEPT !.activated = TRUE], Out)

InitShape ==
    /\ activated \in BOOLEAN
    /\ err_check = FALSE
    /\ cells_num_cells = NumCells
    /\ \E q \in LocalSequences, defect \in Defects, occ \in [Cells -> Occupancies] :
          LET ids == Vector(q)
          IN /\ cell_id_array =
                   IF defect = "cell_id" /\ Len(q) > 0
                   THEN [ids EXCEPT ![Len(q) - 1] = NumCells] ELSE ids
             /\ cells_num_local_cells = Len(q)
             /\ rij_tensor_xx = ShapedTensor("xx", ids, defect)
             /\ rij_tensor_xy = ShapedTensor("xy", ids, defect)
             /\ rij_tensor_xz = ShapedTensor("xz", ids, defect)
             /\ rij_tensor_yy = ShapedTensor("yy", ids, defect)
             /\ rij_tensor_yz = ShapedTensor("yz", ids, defect)
             /\ rij_tensor_zz = ShapedTensor("zz", ids, defect)
             /\ cells_num_atoms_in_cell = Given(occ, defect, "occupancy")
             /\ cells_volume_array =
                   Given([c \in Cells |-> Lit(Volume("generic", c))], defect, "volume")
             /\ mag_array_x =
                   Given([c \in Cells |-> Lab(Moment("generic", c)[1])], defect, "moment")
             /\ mag_array_y =
                   Given([c \in Cells |-> Lab(Moment("generic", c)[2])], defect, "moment")
             /\ mag_array_z =
                   Given([c \in Cells |-> Lab(Moment("generic", c)[3])], defect, "moment")
    /\ cells_field_array_x = StaleArrays.fx
    /\ cells_field_array_y = StaleArrays.fy
    /\ cells_field_array_z = StaleArrays.fz
    /\ cells_mu0Hd_field_array_x = StaleArrays.hx
    /\ cells_mu0Hd_field_array_y = StaleArrays.hy
    /\ cells_mu0Hd_field_array_z = StaleArrays.hz
    /\ pre = StaleArrays
    /\ outcome = "none"
    /\ fault = FALSE
    /\ cerr = FALSE
    /\ opencl_build = FALSE /\ system = <<>> /\ gpu_num_threads = 0
    /\ OpenCLIdle
    /\ ParallelIdle
    /\ DefectReached

\* What an out-of-bounds read gives, or an out-of-bounds write destroys,
\* when the process survives it.
Garbage == Lit(-99)

\* The output arrays with every entry overwritten by garbage.
Clobbered(F) ==
    [fx |-> [c \in DOMAIN F.fx |-> Garbage], fy |-> [c \in DOMAIN F.fy |-> Garbage],
     fz |-> [c \in DOMAIN F.fz |-> Garbage], hx |-> [c \in DOMAIN F.hx |-> Garbage],
     hy |-> [c \in DOMAIN F.hy |-> Garbage], hz |-> [c \in DOMAIN F.hz |-> Garbage]]

\* dipole::internal::update_field(), lines 37-105, when one of its accesses
\* is outside its array.  No line of the function tests an index or a size
\* and none raises an error: the access is made (undefined behaviour), and
\* the process crashes or the call returns, with the output arrays as they
\* were or overwritten.
UpdateFieldOutOfBounds ==
    /\ ~AccessesInBounds(In, Out)
    /\ fault' = TRUE
    /\ outcome' \in {"crashed", "returned"}
    /\ \E F \in {Out, Clobbered(Out)} :
          /\ cells_field_array_x' = F.fx
          /\ cells_field_array_y' = F.fy
          /\ cells_field_array_z' = F.fz
          /\ cells_mu0Hd_field_array_x' = F.hx
          /\ cells_mu0Hd_field_array_y' = F.hy
          /\ cells_mu0Hd_field_array_z' = F.hz
    /\ cerr' = Diagnostic
    /\ pre' = Out
    /\ UNCHANGED inputs

NextShape ==
    \/ outcome # "crashed" /\ UpdateField /\ UNCHANGED <<opencl_vars, parallel_vars>>
    \/ outcome # "crashed" /\ UpdateFieldOutOfBounds /\ UNCHANGED <<opencl_vars, parallel_vars>>

SpecShape == InitShape /\ [][NextShape]_vars

-----------------------------------------------------------------------------
(* Vocabulary of the properties. *)

\* Cell c is in the Local Cell Set.
Owned(c) == \E lc \in 0 .. cells_num_local_cells - 1 : cell_id_array[lc] = c

\* Cell c is occupied.
Occupied(c) == cells_num_atoms_in_cell[c] > 0

\* The six output entries of cell c in the arrays F.
Entries(F, c) == <<F.fx[c], F.fy[c], F.fz[c], F.hx[c], F.hy[c], F.hz[c]>>

\* The last call of update_field returned, with the subsystem active.
CalledActive == outcome = "returned" /\ activated

-----------------------------------------------------------------------------
\* C1 (activation gate): with dipole::activated false, a call of update_field
\* leaves every entry of both output arrays at its pre-call value, call after
\* call.
C1_ActivationGate ==
    (outcome = "returned" /\ ~activated) => Out = pre

\* C1 happens: a deactivated call on arrays that hold left-over values.
C1_Witness ==
    outcome = "returned" /\ ~activated /\ pre = StaleArrays /\ Out = StaleArrays
    /\ \E c \in Cells : Owned(c) /\ Occupied(c)

\* C2 (write frame): a call of update_field changes the output arrays only at
\* cells that are in the Local Cell Set and occupied; every other output
\* entry and every input keep their values.
C2_WriteFrame ==
    [][ /\ \A c \in Cells :
              ~(Owned(c) /\ Occupied(c)) => Entries(Out, c)' = Entries(Out, c)
        /\ inputs' = inputs ]_vars

\* C2 happens: an active call wrote an owned occupied cell while an occupied
\* cell outside the Local Cell Set held left-over values.
C2_Witness ==
    /\ CalledActive
    /\ pre = StaleArrays
    /\ \E c \in Cells : Owned(c) /\ Occupied(c) /\ Entries(Out, c) # Entries(pre, c)
    /\ \E c \in Cells : ~Owned(c) /\ Occupied(c) /\ Entries(Out, c) = Entries(StaleArrays, c)

\* The inputs with, at every cell of occupancy 0, the moment replaced by
\* (9, -8, 7) muB (when m) and every tensor coefficient paired with the cell
\* raised by 1 (when t).
EmptyCellsChanged(in, m, t) ==
    LET mom(a, n) == [c \in DOMAIN a |->
                         IF in.num_atoms[c] = 0 /\ m THEN Lab(n) ELSE a[c]]
        ten(a) == [lc \in DOMAIN a |-> [j \in DOMAIN a[lc] |->
                         IF in.num_atoms[j] = 0 /\ t
                         THEN Add(a[lc][j], Lit(1)) ELSE a[lc][j]]]
    IN [in EXCEPT !.mx = mom(@, 9), !.my = mom(@, -8), !.mz = mom(@, 7),
                  !.txx = ten(@), !.txy = ten(@), !.txz = ten(@),
                  !.tyy = ten(@), !.tyz = ten(@), !.tzz = ten(@)]

\* C3 (zero-occupancy source exclusion): a run whose inputs differ only in
\* the moments of, and the tensor coefficients paired with, cells of
\* occupancy 0 ends with the same two output arrays, at every index.
C3_EmptySourceExcluded ==
    outcome = "returned" =>
        \A v \in {<<TRUE, FALSE>>, <<FALSE, TRUE>>, <<TRUE, TRUE>>} :
            update_field(EmptyCellsChanged(In, v[1], v[2]), pre) = Out

\* C3 happens: an active call wrote a cell while an empty cell carried a
\* moment and tensor coefficients that are not zero.
C3_Witness ==
    /\ CalledActive
    /\ \E c \in Cells : Owned(c) /\ Occupied(c) /\ Entries(Out, c) # Entries(pre, c)
    /\ \E j \in Cells :
          /\ ~Occupied(j)
          /\ mag_array_x[j] # Zero
          /\ \E lc \in 0 .. cells_num_local_cells - 1 :
                Occupied(cell_id_array[lc]) /\ rij_tensor_xx[lc][j] # Zero
    /\ EmptyCellsChanged(In, TRUE, TRUE) # In

-----------------------------------------------------------------------------
\* The normalised moment of cell c (its lab moment times imuB), as x, y, z.
NormalisedMoment(c) ==
    <<normalise(mag_array_x[c]), normalise(mag_array_y[c]), normalise(mag_array_z[c])>>

\* self_demag(Volume[c]) x normalised_moment(c) x unit_scale, component n.
SelfField(c, n) ==
    Mul(Mul(self_demag(In, c), NormalisedMoment(c)[n]), unit_scale)

\* The tensor stored for local index lc and cell j, contracted with the
\* normalised moment of cell j: the x, y and z rows.
PairField(lc, j) ==
    LET m == NormalisedMoment(j)
    IN <<Contract(m[1], m[2], m[3], rij_tensor_xx[lc][j], rij_tensor_xy[lc][j], rij_tensor_xz[lc][j]),
         Contract(m[1], m[2], m[3], rij_tensor_xy[lc][j], rij_tensor_yy[lc][j], rij_tensor_yz[lc][j]),
         Contract(m[1], m[2], m[3], rij_tensor_xz[lc][j], rij_tensor_yz[lc][j], rij_tensor_zz[lc][j])>>

\* The six tensor coefficients stored for local index lc and cell j.
Coefficients(lc, j) ==
    <<rij_tensor_xx[lc][j], rij_tensor_xy[lc][j], rij_tensor_xz[lc][j],
      rij_tensor_yy[lc][j], rij_tensor_yz[lc][j], rij_tensor_zz[lc][j]>>

\* Cell i, of local index lc, is the only occupied cell.
SingleCell(i, lc) ==
    /\ lc \in 0 .. cells_num_local_cells - 1
    /\ cell_id_array[lc] = i
    /\ \A c \in Cells : Occupied(c) <=> c = i

TwoCellScenario(a, b, la, lb, c) ==
    /\ a # b
    /\ \A x \in Cells : Occupied(x) <=> x \in {a, b}
    /\ la \in 0 .. cells_num_local_cells - 1 /\ cell_id_array[la] = a
    /\ lb \in 0 .. cells_num_local_cells - 1 /\ cell_id_array[lb] = b
    /\ cells_volume_array[a] = cells_volume_array[b]
    /\ NormalisedMoment(a) = <<Lit(1), Zero, Zero>>
    /\ NormalisedMoment(b) = <<Zero, Lit(1), Zero>>
    /\ rij_tensor_xy[la][b] = c /\ rij_tensor_xy[lb][a] = c
    /\ \A lc \in 0 .. cells_num_local_cells - 1, j \in Cells, k \in 1 .. 6 :
          (k = 2 /\ <<lc, j>> \in {<<la, b>>, <<lb, a>>})
              \/ Coefficients(lc, j)[k] = Zero

\* C5 as stated (two-cell scenario): Total Dipolar Field[1] =
\* self_demag(V1)*(1,0,0)*scale + (0, c, 0)*scale: the contribution of cell 2
\* is in the y component, the x component holds the self term only.
C5_AsStated ==
    CalledActive =>
        \A a \in Cells, b \in Cells, la \in 0 .. NumCells - 1, lb \in 0 .. NumCells - 1 :
            TwoCellScenario(a, b, la, lb, rij_tensor_xy[la][b]) =>
                /\ Out.fx[a] = SelfField(a, 1)
                /\ Out.fy[a] = Mul(rij_tensor_xy[la][b], unit_scale)
                /\ Out.fz[a] = Zero

\* C5 as amended: Total Dipolar Field[1] =
\* self_demag(V1)*(1,0,0)*scale + (c, 0, 0)*scale: T_xy carries the y
\* component of cell 2's moment into the x component of cell 1's field; the
\* y and z components are zero.
C5_TwoCells ==
    CalledActive =>
        \A a \in Cells, b \in Cells, la \in 0 .. NumCells - 1, lb \in 0 .. NumCells - 1 :
            TwoCellScenario(a, b, la, lb, rij_tensor_xy[la][b]) =>
                /\ Out.fx[a] = Add(SelfField(a, 1), Mul(rij_tensor_xy[la][b], unit_scale))
                /\ Out.fy[a] = Zero
                /\ Out.fz[a] = Zero

\* C5 happens: an active call in the two-cell scenario with c = 7.
C5_Witness ==
    /\ CalledActive
    /\ pre = StaleArrays
    /\ \E a \in Cells, b \in Cells, la \in 0 .. NumCells - 1, lb \in 0 .. NumCells - 1 :
          TwoCellScenario(a, b, la, lb, Lit(7))

-----------------------------------------------------------------------------
\* C6 (the outputs differ only in their self term): at every owned occupied
\* cell i, Total Dipolar Field[i] - Demagnetizing Pseudo-Field[i] =
\* 1.5 x self_demag(Volume[i]) x normalised_moment(i) x unit_scale, component
\* by component, whatever the tensor and the other cells' moments.
C6_SelfTermDifference ==
    CalledActive =>
        \A i \in Cells : (Owned(i) /\ Occupied(i)) =>
            \A n \in 1 .. 3 :
                Sub(Entries(Out, i)[n], Entries(Out, i)[n + 3])
                    = Mul(Frac(3, 2), SelfField(i, n))

\* C6 happens: an active call wrote a cell with a moment, with a second
\* occupied cell and a tensor that is not zero contributing to both arrays.
C6_Witness ==
    /\ CalledActive
    /\ \E i \in Cells, lc \in 0 .. NumCells - 1, j \in Cells :
          /\ lc \in 0 .. cells_num_local_cells - 1 /\ cell_id_array[lc] = i
          /\ Occupied(i) /\ Occupied(j) /\ i # j
          /\ \A n \in 1 .. 3 : SelfField(i, n) # Zero /\ PairField(lc, j)[n] # Zero
          /\ \A n \in 1 .. 3 : Entries(Out, i)[n] # SelfField(i, n)

\* C7 (no carry-over): after an active call the entries of every owned
\* occupied cell are those the call gives from any other contents of the
\* output arrays, and a second call on the same inputs changes nothing.
C7_NoCarryOver ==
    CalledActive =>
        /\ \A G \in InitialArrays, i \in Cells : (Owned(i) /\ Occupied(i)) =>
              Entries(update_field(In, G), i) = Entries(Out, i)
        /\ update_field(In, Out) = Out

\* C7 happens: a second active call, on arrays whose owned occupied entries
\* hold the values of the first and are not zero.
C7_Witness ==
    /\ CalledActive
    /\ pre = Out
    /\ \E i \in Cells :
          /\ Owned(i) /\ Occupied(i)
          /\ \A n \in 1 .. 6 : Entries(Out, i)[n] # Zero
          /\ \A G \in InitialArrays : Entries(Out, i) # Entries(G, i)

\* The factors the moments are scaled by.
ScaleFactors == {0, -2, 3}

\* The inputs with every cell's moment vector multiplied by k.
MomentsScaled(in, k) ==
    LET sc(a) == [c \in DOMAIN a |-> Mul(Lit(k), a[c])]
    IN [in EXCEPT !.mx = sc(@), !.my = sc(@), !.mz = sc(@)]

\* C8 (linearity in the moments): with every moment multiplied by k, every
\* written entry of both output arrays is k times the value the unscaled
\* moments give.
C8_Linearity ==
    CalledActive =>
        \A k \in ScaleFactors :
            LET G == update_field(MomentsScaled(In, k), pre)
            IN \A i \in Cells : (Owned(i) /\ Occupied(i)) =>
                  \A n \in 1 .. 6 :
                      Entries(G, i)[n] = Mul(Lit(k), Entries(Out, i)[n])

\* C8 happens: an active call wrote, over left-over values, a cell whose
\* entries are not zero, from a self term and a pairwise term.
C8_Witness ==
    /\ CalledActive
    /\ pre = StaleArrays
    /\ \E i \in Cells, lc \in 0 .. NumCells - 1, j \in Cells :
          /\ lc \in 0 .. cells_num_local_cells - 1 /\ cell_id_array[lc] = i
          /\ Occupied(i) /\ Occupied(j)
          /\ \A n \in 1 .. 3 : SelfField(i, n) # Zero /\ PairField(lc, j)[n] # Zero
          /\ \A n \in 1 .. 6 : Entries(Out, i)[n] # Zero

-----------------------------------------------------------------------------
\* C9 (fail-fast on shape mismatch): an active call of update_field on
\* inconsistent inputs ends in an explicit error and makes no access outside
\* an array.
C9_FailFast ==
    (outcome # "none" /\ activated /\ ShapeMismatch) =>
        (outcome = "error" /\ ~fault)

-----------------------------------------------------------------------------
\* The machine has no platform, or platforms with no device in total.
NoResources == \A p \in DOMAIN system : system[p] = 0

\* C10 (fatal on missing resources): on a machine with no platform, or with
\* no device in total, initialize (built with OPENCL) goes no further than
\* its two checks: it can stop only in err::vexit, reached with the
\* diagnostic last in the log; no device is selected, no context or queue
\* created, no initialize_* step run, and it never returns true.
C10_FatalOnMissingResources ==
    (opencl_build /\ NoResources) =>
        /\ cl_pc \in {"start", "get_platforms", "check_platforms",
                      "get_devices", "check_devices", vexit}
        /\ cl_pc # vexit => ENABLED NextOpenCL
        /\ cl_pc = vexit =>
              /\ zlog # <<>>
              /\ zlog[Len(zlog)] = IF DOMAIN system = {} THEN NoPlatformsMessage
                                   ELSE NoDevicesMessage
        /\ default_device = NoDevice
        /\ context = NoContext
        /\ queue = NoQueue
        /\ global = 0
        /\ steps_run = <<>>
        /\ ~(cl_pc = "returned" /\ success)
        /\ ~success

\* C10 happens: initialize found platforms, none with a device, and the
\* process has exited.
C10_Witness ==
    /\ opencl_build
    /\ NoResources
    /\ nplatforms = MaxPlatforms
    /\ cl_i = nplatforms
    /\ ndevices = 0
    /\ cl_pc = vexit
    /\ zlog = <<StartMessage, NoDevicesMessage>>

-----------------------------------------------------------------------------
(* SpecParallel: the loop of lines 51-104 run by several execution units   *)
(* at once.  The outer-loop iterations lc = 0 .. cells_num_local_cells-1   *)
(* are dealt out to the units; the Local Cell Set of a unit is the cells   *)
(* cell_id_array[lc] of its iterations and its tensor rows are the rows lc *)
(* of its iterations.  A unit runs its iterations in ascending order; the  *)
(* steps of different units interleave freely.  The output arrays are      *)
(* shared by all units and nothing synchronises them.  A compound          *)
(* assignment (+=, *=) is a read of the six entries of cell i followed,    *)
(* in a later step, by their write.                                        *)

Local == 0 .. cells_num_local_cells - 1

\* The ways of dealing n iterations out to the units, one for each partition
\* (a unit is used only when the units before it are).
Assignments(n) ==
    {f \in [0 .. n - 1 -> Units] :
        \A k \in 0 .. n - 1 :
            \/ f[k] = 1
            \/ \E m \in 0 .. k - 1 : f[m] + 1 >= f[k]}

\* The iterations of unit u.
IterationsOf(u) == {lc \in Local : unit_of[lc] = u}

\* The Local Cell Set of unit u.
LocalCellSet(u) == {cell_id_array[lc] : lc \in IterationsOf(u)}

InitParallel ==
    /\ activated \in BOOLEAN
    /\ err_check = TRUE
    /\ cells_num_cells = NumCells
    /\ \E q \in LocalSequences :
          /\ cell_id_array = Vector(q)
          /\ cells_num_local_cells = Len(q)
          /\ rij_tensor_xx = Tensor("generic", "xx", Vector(q))
          /\ rij_tensor_xy = Tensor("generic", "xy", Vector(q))
          /\ rij_tensor_xz = Tensor("generic", "xz", Vector(q))
          /\ rij_tensor_yy = Tensor("generic", "yy", Vector(q))
          /\ rij_tensor_yz = Tensor("generic", "yz", Vector(q))
          /\ rij_tensor_zz = Tensor("generic", "zz", Vector(q))
          /\ unit_of \in Assignments(Len(q))
          /\ it_pc = [lc \in 0 .. Len(q) - 1 |-> "cell"]
          /\ it_j = [lc \in 0 .. Len(q) - 1 |-> 0]
          /\ it_acc = [lc \in 0 .. Len(q) - 1 |-> NoAcc]
    /\ cells_num_atoms_in_cell \in [Cells -> Occupancies]
    /\ \E data \in {"generic", "mixed"} :
          /\ cells_volume_array = [c \in Cells |-> Lit(Volume(data, c))]
          /\ mag_array_x = [c \in Cells |-> Lab(Moment(data, c)[1])]
          /\ mag_array_y = [c \in Cells |-> Lab(Moment(data, c)[2])]
          /\ mag_array_z = [c \in Cells |-> Lab(Moment(data, c)[3])]
    /\ cells_field_array_x = StaleArrays.fx
    /\ cells_field_array_y = StaleArrays.fy
    /\ cells_field_array_z = StaleArrays.fz
    /\ cells_mu0Hd_field_array_x = StaleArrays.hx
    /\ cells_mu0Hd_field_array_y = StaleArrays.hy
    /\ cells_mu0Hd_field_array_z = StaleArrays.hz
    /\ pre = StaleArrays
    /\ outcome = "none"
    /\ fault = FALSE
    /\ cerr = FALSE
    /\ unit_pc = [u \in Units |-> "enter"]
    /\ writers = [c \in Cells |-> {}]
    /\ readers = [c \in Cells |-> {}]
    /\ opencl_build = FALSE /\ system = <<>> /\ gpu_num_threads = 0
    /\ OpenCLIdle

\* Mutant of TargetCell: every iteration works on the cell of the first.
TargetCell_Shared(lc) == cell_id_array[0]

\* Line 53: int i = cells::cell_id_array[lc].
TargetCell(lc) == cell_id_array[lc]

\* The arrays F with the six entries of cell i taken from the arrays G.
Store(F, i, G) ==
    [F EXCEPT !.fx[i] = G.fx[i], !.fy[i] = G.fy[i], !.fz[i] = G.fz[i],
              !.hx[i] = G.hx[i], !.hy[i] = G.hy[i], !.hz[i] = G.hz[i]]

\* The arrays F with the six entries of cell i as an iteration read them.
Loaded(F, i, acc) ==
    [F EXCEPT !.fx[i] = acc[1], !.fy[i] = acc[2], !.fz[i] = acc[3],
              !.hx[i] = acc[4], !.hy[i] = acc[5], !.hz[i] = acc[6]]

\* The output arrays become F.
Write(F) ==
    /\ cells_field_array_x' = F.fx
    /\ cells_field_array_y' = F.fy
    /\ cells_field_array_z' = F.fz
    /\ cells_mu0Hd_field_array_x' = F.hx
    /\ cells_mu0Hd_field_array_y' = F.hy
    /\ cells_mu0Hd_field_array_z' = F.hz

\* Every unit has returned from update_field.
AllReturned == \A u \in Units : unit_pc[u] = "returned"

\* Iteration lc is the one its unit is at: the unit is in the loop and has
\* finished its iterations before lc.
Current(lc) ==
    /\ unit_pc[unit_of[lc]] = "loop"
    /\ \A k \in 0 .. lc - 1 : unit_of[k] = unit_of[lc] => it_pc[k] = "done"

\* Lines 39-45 in unit u: the activation gate and the diagnostic line.
EnterUnit(u) ==
    /\ unit_pc[u] = "enter"
    /\ unit_pc' = [unit_pc EXCEPT ![u] = IF Gate(In) THEN "returned" ELSE "loop"]
    /\ cerr' = (cerr \/ (~Gate(In) /\ Diagnostic))
    /\ outcome' = IF AllReturned' THEN "returned" ELSE outcome
    /\ UNCHANGED <<inputs, outputs, fault, pre, unit_of, it_pc, it_j, it_acc,
                   writers, readers>>

\* Lines 53-73 in iteration lc: the occupancy test of the target and the
\* assignment of the self term to the entries of cell i; then j = 0.
BeginCell(lc) ==
    LET i == TargetCell(lc)
    IN /\ it_pc[lc] = "cell"
       /\ Current(lc)
       /\ IF IsTarget(In, i)
          THEN /\ Write(Store(Out, i, CellSelf(In, Out, i)))
               /\ writers' = [writers EXCEPT ![i] = @ \cup {lc}]
               /\ it_pc' = [it_pc EXCEPT ![lc] = "pair"]
          ELSE /\ it_pc' = [it_pc EXCEPT ![lc] = "done"]
               /\ UNCHANGED <<outputs, writers>>
       /\ it_j' = [it_j EXCEPT ![lc] = 0]
       /\ UNCHANGED <<inputs, outcome, fault, cerr, pre, unit_of, unit_pc,
                      it_acc, readers>>

\* Lines 76-90 in iteration lc, up to the read of a +=: the loop test
\* j < cells_num_cells, the occupancy test of the source, and the read of
\* the entries of cell i that the += of lines 84-90 add to.
PairLoad(lc) ==
    LET i == TargetCell(lc)
        j == it_j[lc]
    IN /\ it_pc[lc] = "pair"
       /\ Current(lc)
       /\ IF j >= cells_num_cells
          THEN /\ it_pc' = [it_pc EXCEPT ![lc] = "scale"]
               /\ UNCHANGED <<it_j, it_acc, readers>>
          ELSE IF ~IsSource(In, j)
          THEN /\ it_j' = [it_j EXCEPT ![lc] = j + 1]
               /\ UNCHANGED <<it_pc, it_acc, readers>>
          ELSE /\ it_acc' = [it_acc EXCEPT ![lc] = Entries(Out, i)]
               /\ readers' = [readers EXCEPT ![i] = @ \cup {lc}]
               /\ it_pc' = [it_pc EXCEPT ![lc] = "add"]
               /\ UNCHANGED it_j
       /\ UNCHANGED <<inputs, outputs, outcome, fault, cerr, pre, unit_of,
                      unit_pc, writers>>

\* Lines 84-90 in iteration lc, the write of the +=: the entries read plus
\* the contribution of source j; then j++.
PairStore(lc) ==
    LET i == TargetCell(lc)
        j == it_j[lc]
    IN /\ it_pc[lc] = "add"
       /\ Current(lc)
       /\ Write(Store(Out, i, PairAdd(In, Loaded(Out, i, it_acc[lc]), lc, i, j)))
       /\ writers' = [writers EXCEPT ![i] = @ \cup {lc}]
       /\ it_acc' = [it_acc EXCEPT ![lc] = NoAcc]
       /\ it_j' = [it_j EXCEPT ![lc] = j + 1]
       /\ it_pc' = [it_pc EXCEPT ![lc] = "pair"]
       /\ UNCHANGED <<inputs, outcome, fault, cerr, pre, unit_of, unit_pc,
                      readers>>

\* Lines 95-102 in iteration lc, the read of the *=.
ScaleLoad(lc) ==
    LET i == TargetCell(lc)
    IN /\ it_pc[lc] = "scale"
       /\ Current(lc)
       /\ it_acc' = [it_acc EXCEPT ![lc] = Entries(Out, i)]
       /\ readers' = [readers EXCEPT ![i] = @ \cup {lc}]
       /\ it_pc' = [it_pc EXCEPT ![lc] = "scaled"]
       /\ UNCHANGED <<inputs, outputs, outcome, fault, cerr, pre, unit_of,
                      unit_pc, it_j, writers>>

\* Lines 95-102 in iteration lc, the write of the *=: the entries read times
\* 9.274009994e-01.  The iteration is over.
ScaleStore(lc) ==
    LET i == TargetCell(lc)
    IN /\ it_pc[lc] = "scaled"
       /\ Current(lc)
       /\ Write(Store(Out, i, CellScale(Loaded(Out, i, it_acc[lc]), i)))
       /\ writers' = [writers EXCEPT ![i] = @ \cup {lc}]
       /\ it_acc' = [it_acc EXCEPT ![lc] = NoAcc]
       /\ it_pc' = [it_pc EXCEPT ![lc] = "done"]
       /\ UNCHANGED <<inputs, outcome, fault, cerr, pre, unit_of, unit_pc,
                      it_j, readers>>

\* Lines 51 and 105 in unit u: lc < cells_num_local_cells fails for the
\* unit's share of the loop, and update_field returns.
ReturnUnit(u) ==
    /\ unit_pc[u] = "loop"
    /\ \A lc \in IterationsOf(u) : it_pc[lc] = "done"
    /\ unit_pc' = [unit_pc EXCEPT ![u] = "returned"]
    /\ outcome' = IF AllReturned' THEN "returned" ELSE outcome
    /\ UNCHANGED <<inputs, outputs, fault, cerr, pre, unit_of, it_pc, it_j,
                   it_acc, writers, readers>>

NextParallel ==
    \/ \E u \in Units : EnterUnit(u) /\ UNCHANGED opencl_vars
    \/ \E lc \in Local : BeginCell(lc) /\ UNCHANGED opencl_vars
    \/ \E lc \in Local : PairLoad(lc) /\ UNCHANGED opencl_vars
    \/ \E lc \in Local : PairStore(lc) /\ UNCHANGED opencl_vars
    \/ \E lc \in Local : ScaleLoad(lc) /\ UNCHANGED opencl_vars
    \/ \E lc \in Local : ScaleStore(lc) /\ UNCHANGED opencl_vars
    \/ \E u \in Units : ReturnUnit(u) /\ UNCHANGED opencl_vars

SpecParallel == InitParallel /\ [][NextParallel]_vars

\* The units one after another: unit u alone, from iteration lc on.
RECURSIVE RunUnit(_, _, _, _)
RunUnit(in, F, u, lc) ==
    IF lc >= in.num_local THEN F
    ELSE RunUnit(in, IF unit_of[lc] = u THEN CellUpdate(in, F, lc) ELSE F,
                 u, lc + 1)

\* The units of a sequence, each run alone, in the order of the sequence.
RECURSIVE RunUnits(_, _, _)
RunUnits(in, F, order) ==
    IF order = <<>> THEN F
    ELSE RunUnits(in, RunUnit(in, F, Head(order), 0), Tail(order))

\* Every order of the units.
UnitOrders ==
    {p \in [1 .. NumUnits -> Units] : \A a, b \in 1 .. NumUnits : p[a] = p[b] => a = b}

\* The Local Cell Sets of the units are pairwise disjoint, and no unit has a
\* cell twice.
DisjointLocalSets ==
    \A a, b \in Local : cell_id_array[a] = cell_id_array[b] => a = b

\* C11 (data-parallel independence): for units with pairwise disjoint Local
\* Cell Sets running update_field at once on fixed inputs, in every
\* interleaving of their steps, no output slot is written by two iterations
\* (so by two units), no iteration reads an output slot another has written,
\* and when all have returned both output arrays are what running the units
\* one after another gives, in every order of the units.
C11_DataParallelIndependence ==
    DisjointLocalSets =>
        /\ \A c \in Cells : Cardinality(writers[c]) <= 1
        /\ \A c \in Cells : \A r \in readers[c], w \in writers[c] : r = w
        /\ AllReturned =>
              \A p \in UnitOrders :
                  Out = IF Gate(In) THEN pre ELSE RunUnits(In, pre, p)

\* C11 happens: two units have returned from an active call, each having
\* written, read back and rewritten the slot of a cell of its own, with more
\* than one source contributing.
C11_Witness ==
    /\ AllReturned
    /\ activated
    /\ Cardinality({c \in Cells : Occupied(c)}) >= 2
    /\ \E a, b \in Local :
          /\ unit_of[a] # unit_of[b]
          /\ writers[cell_id_array[a]] = {a} /\ readers[cell_id_array[a]] = {a}
          /\ writers[cell_id_array[b]] = {b} /\ readers[cell_id_array[b]] = {b}
    /\ Out # pre

-----------------------------------------------------------------------------
\* C12 (valid default device): whenever initialize has passed both checks
\* and is at the selection of lines 111-112, platform 0 has a device, so
\* devices[0][0] exists: the selection never reads past the end of
\* devices[0], and the default device is never one that does not exist.
C12_ValidDefaultDevice ==
    /\ cl_pc = "select" => 0 \in DOMAIN devices[0]
    /\ cl_pc # "crashed"
    /\ default_device # InvalidDevice

=============================================================================
